---- MODULE Spec2Model ----
(***************************************************************************)
(* Easy21 (gym_like/envs/card_game/easy_21.py): the episode state of the   *)
(* environment, its reset and step operations, the dealer's auto-play loop *)
(* and the reward computation.                                             *)
(***************************************************************************)
EXTENDS Integers, Sequences, FiniteSets, TLC

VARIABLES
    score,       \* self.score: [player |-> Int, dealer |-> Int]
    pc,          \* position of the running call: "idle" or "dealer_loop"
    call,        \* the most recent call: <<"reset">>, <<"step", action>>, ...
    ret,         \* what the most recent call returned or raised
    entry,       \* self.score when the most recent call was entered
    ndraws,      \* cards drawn by the most recent call (saturates at MaxDraws)
    terminated,  \* a step since the last reset has returned done = True
    misused      \* step has been called since the last reset after done = True

vars == <<score, pc, call, ret, entry, ndraws, terminated, misused>>

\* ---------------------------------------------------------------- bounds
\* step(1) is explored only while |player| <= MaxAbsSum (Hit on a bust hand
\* would otherwise drift without limit).
MaxAbsSum == 24
\* ndraws counts up to MaxDraws and then stays there.
MaxDraws == 3
\* _get_reward_and_terminator is exercised directly on sums in
\* -UnitMax .. 21 + UnitMax.
UnitMax == 4
\* actions handed to step() are drawn from -1 .. MaxAction.
MaxAction == 3

\* ------------------------------------------------------- pure functions
\* an action space with one value too many
ActionSpaceOfThree(a) == a \in 0..2

\* spaces.Discrete(2).contains(action)
ActionSpaceContains(a) == a \in 0..1

\* a deal that starts at 1 instead of 2
HandValuesFromOne == 1..10

\* a deal that can hand out any sum up to 21
HandValuesUpTo21 == 2..21

\* self.np_random.randint(2, 11) in _draw_hand
HandValues == 2..10

\* self.np_random.choice([-1, 1], p=[0.3333, 0.6667])
CardTypes == {-1, 1}

\* a card index that can be 0
CardIdxFromZero == 0..10

\* a card index that can be 11
CardIdxTo11 == 2..11

\* self.np_random.randint(2, 11) in _draw_card
CardIdx == 2..10

\* the values _draw_card can return: card_type * card_idx
DrawCard == {t * i : t \in CardTypes, i \in CardIdx}

\* a bust test that is off by one at the upper boundary
IsBustAt21(x) == x < 1 \/ x >= 21

\* a bust test that lets a sum of 0 pass
IsBustBelowZero(x) == x < 0 \/ x > 21

\* a bust test that lets a sum of 22 pass
IsBustAbove22(x) == x < 1 \/ x > 22

\* _is_bust
IsBust(x) == x < 1 \/ x > 21

\* a comparison that gives ties to the player
SignTieWins(x) == IF x >= 0 THEN 1 ELSE -1

\* a difference returned without taking its sign
SignIdentity(x) == x

\* np.sign
Sign(x) == IF x > 0 THEN 1 ELSE IF x < 0 THEN -1 ELSE 0

\* a dealer that also draws on 17
DealerDrawsOn17(d) == 1 <= d /\ d <= 17

\* a dealer that sticks only from 18
DealerDrawsBelow18(d) == 1 <= d /\ d < 18

\* the loop condition of the dealer's auto-play: 1 <= self.score["dealer"] < 17
DealerMustDraw(d) == 1 <= d /\ d < 17

\* _get_observation
GetObservation(s) == <<s.player, s.dealer>>

\* the shapes of ret
Pending == [kind |-> "pending", obs |-> <<0, 0>>, reward |-> 0,
            done |-> FALSE, msg |-> ""]

Raised(m) == [kind |-> "AssertionError", obs |-> <<0, 0>>, reward |-> 0,
              done |-> FALSE, msg |-> m]

ObsReturn(s) == [kind |-> "observation", obs |-> GetObservation(s),
                 reward |-> 0, done |-> FALSE, msg |-> ""]

StepReturn(s, r) == [kind |-> "step", obs |-> GetObservation(s),
                     reward |-> r.reward, done |-> r.done, msg |-> ""]

\* a Python bool handed back by _is_bust
BoolReturn(b) == [kind |-> IF b THEN "True" ELSE "False", obs |-> <<0, 0>>,
                  reward |-> 0, done |-> FALSE, msg |-> ""]

\* a player branch that reports a bust hand as still in play
RewardKeepsBustPlayerIn(caller, s) ==
    IF caller = "player"
    THEN IF IsBust(s.player)
         THEN [ok |-> TRUE, reward |-> -1, done |-> FALSE]
         ELSE [ok |-> TRUE, reward |-> 0, done |-> FALSE]
    ELSE IF IsBust(s.player)
         THEN [ok |-> FALSE, reward |-> 0, done |-> FALSE]
         ELSE [ok |-> TRUE,
               reward |-> IF IsBust(s.dealer) THEN 1
                          ELSE Sign(s.player - s.dealer),
               done |-> TRUE]

\* a dealer branch whose assertion looks at the dealer's sum
RewardAssertsOnDealer(caller, s) ==
    IF caller = "player"
    THEN IF IsBust(s.player)
         THEN [ok |-> TRUE, reward |-> -1, done |-> TRUE]
         ELSE [ok |-> TRUE, reward |-> 0, done |-> FALSE]
    ELSE IF IsBust(s.dealer)
         THEN [ok |-> FALSE, reward |-> 0, done |-> FALSE]
         ELSE [ok |-> TRUE,
               reward |-> IF IsBust(s.dealer) THEN 1
                          ELSE Sign(s.player - s.dealer),
               done |-> TRUE]

\* a dealer branch that leaves done as the hit branch would
RewardStickNotDone(caller, s) ==
    IF caller = "player"
    THEN IF IsBust(s.player)
         THEN [ok |-> TRUE, reward |-> -1, done |-> TRUE]
         ELSE [ok |-> TRUE, reward |-> 0, done |-> FALSE]
    ELSE IF IsBust(s.player)
         THEN [ok |-> FALSE, reward |-> 0, done |-> FALSE]
         ELSE [ok |-> TRUE,
               reward |-> IF IsBust(s.dealer) THEN 1
                          ELSE Sign(s.player - s.dealer),
               done |-> IsBust(s.dealer)]

\* _get_reward_and_terminator(caller) on the sums s; ok = FALSE is the
\* failed assertion
GetRewardAndTerminator(caller, s) ==
    IF caller = "player"
    THEN IF IsBust(s.player)
         THEN [ok |-> TRUE, reward |-> -1, done |-> TRUE]
         ELSE [ok |-> TRUE, reward |-> 0, done |-> FALSE]
    ELSE IF IsBust(s.player)
         THEN [ok |-> FALSE, reward |-> 0, done |-> FALSE]
         ELSE [ok |-> TRUE,
               reward |-> IF IsBust(s.dealer) THEN 1
                          ELSE Sign(s.player - s.dealer),
               done |-> TRUE]

\* what a call that evaluated r on the sums s hands back to its caller
Outcome(s, r) == IF r.ok THEN StepReturn(s, r)
                 ELSE Raised("Player already goes bust.")

\* ------------------------------------------------------------- the engine
\* __init__: seed(), score = None/None, then reset()
Init ==
    /\ \E p \in HandValues, d \in HandValues : score = [player |-> p, dealer |-> d]
    /\ pc = "idle"
    /\ call = <<"reset">>
    /\ ret = ObsReturn(score)
    /\ entry = score
    /\ ndraws = 0
    /\ terminated = FALSE
    /\ misused = FALSE

\* reset() -> _draw_hand()
Reset ==
    /\ pc = "idle"
    /\ \E p \in HandValues, d \in HandValues : score' = [player |-> p, dealer |-> d]
    /\ ret' = ObsReturn(score')
    /\ call' = <<"reset">>
    /\ entry' = score
    /\ ndraws' = 0
    /\ terminated' = FALSE
    /\ misused' = FALSE
    /\ pc' = "idle"

\* step(action) with an action the action space does not contain
StepInvalid(a) ==
    /\ pc = "idle"
    /\ ~ActionSpaceContains(a)
    /\ call' = <<"step", a>>
    /\ entry' = score
    /\ ndraws' = 0
    /\ ret' = Raised("")
    /\ misused' = (misused \/ terminated)
    /\ UNCHANGED <<score, pc, terminated>>

\* a hit branch that adds the card to the dealer's sum
StepHitDrawsForDealer(a) ==
    /\ pc = "idle"
    /\ ActionSpaceContains(a)
    /\ a # 0
    /\ -MaxAbsSum <= score.dealer /\ score.dealer <= MaxAbsSum
    /\ \E c \in DrawCard :
         score' = [score EXCEPT !.dealer = score.dealer + c]
    /\ LET r == GetRewardAndTerminator("player", score')
       IN  /\ ret' = Outcome(score', r)
           /\ terminated' = (terminated \/ (r.ok /\ r.done))
    /\ call' = <<"step", a>>
    /\ entry' = score
    /\ ndraws' = 1
    /\ misused' = (misused \/ terminated)
    /\ UNCHANGED pc

\* step(action), the hit branch
StepHit(a) ==
    /\ pc = "idle"
    /\ ActionSpaceContains(a)
    /\ a # 0
    /\ -MaxAbsSum <= score.player /\ score.player <= MaxAbsSum
    /\ \E c \in DrawCard :
         score' = [score EXCEPT !.player = score.player + c]
    /\ LET r == GetRewardAndTerminator("player", score')
       IN  /\ ret' = Outcome(score', r)
           /\ terminated' = (terminated \/ (r.ok /\ r.done))
    /\ call' = <<"step", a>>
    /\ entry' = score
    /\ ndraws' = 1
    /\ misused' = (misused \/ terminated)
    /\ UNCHANGED pc

\* step(action), the stick branch up to the first test of the loop condition
StepStick(a) ==
    /\ pc = "idle"
    /\ ActionSpaceContains(a)
    /\ a = 0
    /\ call' = <<"step", a>>
    /\ entry' = score
    /\ ndraws' = 0
    /\ ret' = Pending
    /\ pc' = "dealer_loop"
    /\ misused' = (misused \/ terminated)
    /\ UNCHANGED <<score, terminated>>

\* one iteration of the dealer's loop
DealerDraw ==
    /\ pc = "dealer_loop"
    /\ DealerMustDraw(score.dealer)
    /\ \E c \in DrawCard :
         score' = [score EXCEPT !.dealer = score.dealer + c]
    /\ ndraws' = IF ndraws < MaxDraws THEN ndraws + 1 ELSE ndraws
    /\ UNCHANGED <<pc, call, ret, entry, terminated, misused>>

\* the loop condition fails: evaluate the outcome and return (or raise)
StickResolve ==
    /\ pc = "dealer_loop"
    /\ ~DealerMustDraw(score.dealer)
    /\ LET r == GetRewardAndTerminator("dealer", score)
       IN  /\ ret' = Outcome(score, r)
           /\ terminated' = (terminated \/ (r.ok /\ r.done))
    /\ pc' = "idle"
    /\ UNCHANGED <<score, call, entry, ndraws, misused>>

Step == \E a \in -1..MaxAction : StepInvalid(a) \/ StepHit(a) \/ StepStick(a)

Next == Reset \/ Step \/ DealerDraw \/ StickResolve

Spec == Init /\ [][Next]_vars

\* a call of step runs to completion: the loop goes on while its condition
\* holds and the call returns once it fails; which card is drawn is free
SpecFair == Spec /\ WF_vars(DealerDraw) /\ WF_vars(StickResolve)

\* ------------------------------------- the reward function on arbitrary sums
\* env.score["player"], env.score["dealer"] = p, d  (the module's self test)
UnitInit ==
    /\ \E p \in -UnitMax..(21 + UnitMax), d \in -UnitMax..(21 + UnitMax) :
         score = [player |-> p, dealer |-> d]
    /\ pc = "idle"
    /\ call = <<"assign">>
    /\ ret = Pending
    /\ entry = score
    /\ ndraws = 0
    /\ terminated = FALSE
    /\ misused = FALSE

\* reward, done = env._get_reward_and_terminator(caller)
UnitGetReward(caller) ==
    /\ call = <<"assign">>
    /\ call' = <<"_get_reward_and_terminator", caller>>
    /\ ret' = Outcome(score, GetRewardAndTerminator(caller, score))
    /\ UNCHANGED <<score, pc, entry, ndraws, terminated, misused>>

\* env._is_bust(x)
UnitIsBust(x) ==
    /\ call = <<"assign">>
    /\ call' = <<"_is_bust", x>>
    /\ ret' = BoolReturn(IsBust(x))
    /\ UNCHANGED <<score, pc, entry, ndraws, terminated, misused>>

UnitNext ==
    \/ UnitGetReward("player")
    \/ UnitGetReward("dealer")
    \/ \E x \in -UnitMax..(21 + UnitMax) : UnitIsBust(x)

SpecUnit == UnitInit /\ [][UnitNext]_vars

\* ------------------------------------------------------------ properties
IsReset == call = <<"reset">>

IsStep(a) == Len(call) = 2 /\ call[1] = "step" /\ call[2] = a

IsUnit(caller) ==
    Len(call) = 2 /\ call[1] = "_get_reward_and_terminator" /\ call[2] = caller

\* C1: after reset(), whatever came before, player_sum and dealer_sum are
\* each in 2..10, the call returned exactly that pair, and the episode is in
\* progress (no step since the reset has returned, nothing is pending).
C1_ResetDealsFreshHand ==
    IsReset =>
        /\ score.player \in 2..10
        /\ score.dealer \in 2..10
        /\ ret.kind = "observation"
        /\ ret.obs = <<score.player, score.dealer>>
        /\ pc = "idle"
        /\ ~terminated
        /\ ~misused

\* reset() was called on an episode that had ended with a bust player
C1_Witness ==
    /\ IsReset
    /\ entry.player > 21
    /\ score.player \in 2..10

\* C2: step(Hit) adds one nonzero card delta of magnitude at most 10 to
\* player_sum; it returns reward -1 and done = true when the new player_sum
\* is < 1 or > 21, reward 0 and done = false otherwise; the observation is
\* the pair of sums after the draw.
C2_HitOutcome ==
    IsStep(1) =>
        /\ ret.kind = "step"
        /\ ndraws = 1
        /\ (score.player - entry.player) \in ((-10..10) \ {0})
        /\ ret.obs = <<score.player, score.dealer>>
        /\ IF score.player < 1 \/ score.player > 21
           THEN ret.reward = -1 /\ ret.done = TRUE
           ELSE ret.reward = 0 /\ ret.done = FALSE

\* a hit that landed exactly on 21 and went on
C2_Witness ==
    /\ IsStep(1)
    /\ score.player = 21
    /\ ret.done = FALSE

C4_DealerStep ==
    /\ (pc = "dealer_loop" /\ score'.dealer # score.dealer) =>
           /\ 1 <= score.dealer /\ score.dealer < 17
           /\ pc' = "dealer_loop"
    /\ (pc = "dealer_loop" /\ (score.dealer < 1 \/ score.dealer > 21)) =>
           score'.dealer = score.dealer
    /\ (pc = "dealer_loop" /\ pc' = "idle") =>
           /\ score.dealer \notin 1..16
           /\ score' = score
    /\ (pc' = "idle" /\ Len(call') = 2 /\ call'[1] = "step" /\ call'[2] = 0) =>
           /\ score'.dealer \notin 1..16
           /\ (entry'.dealer < 1 \/ entry'.dealer >= 17) =>
                  (ndraws' = 0 /\ score'.dealer = entry'.dealer)

\* C4: every step of the engine obeys the dealer's loop discipline.
C4_DealerLoop == [][C4_DealerStep]_vars

\* a stick on a dealer already at 17 or more returned without a draw
C4_Witness ==
    /\ IsStep(0)
    /\ pc = "idle"
    /\ entry.dealer >= 17
    /\ ndraws = 0
    /\ ret.kind = "step"

\* C5: once a step has returned done = true, every later step of the same
\* episode that returns also returns done = true.
C5_TerminalAbsorbing ==
    (terminated /\ Len(call) = 2 /\ call[1] = "step" /\ ret.kind = "step") =>
        ret.done = TRUE

\* C5 as amended: a step called after done = true still runs; if it is a
\* Stick that returns it returns done = true, if it is a Hit it returns
\* done = true exactly when the new player_sum is < 1 or > 21; reset() starts
\* a fresh episode.
C5_StepAfterTerminal ==
    /\ (misused /\ ret.kind = "step") =>
           (ret.done <=> (IsStep(0) \/ score.player < 1 \/ score.player > 21))
    /\ IsReset => (~terminated /\ ~misused)

\* a hit taken after the episode had ended came back with done = false
C5_Witness ==
    /\ misused
    /\ IsStep(1)
    /\ ret.kind = "step"
    /\ ret.done = FALSE

C7_InvalidActionFails ==
    (Len(call) = 2 /\ call[1] = "step" /\ call[2] \notin {0, 1}) =>
        /\ ret.kind = "AssertionError"
        /\ pc = "idle"
        /\ ndraws = 0
        /\ score = entry

\* step(2) was called
C7_Witness ==
    /\ IsStep(2)
    /\ ret.kind = "AssertionError"

\* C8: with player_sum < 1 or > 21, _get_reward_and_terminator("dealer")
\* raises "Player already goes bust." and returns no reward, whatever
\* dealer_sum is.
C8_BustPlayerResolutionFails ==
    (IsUnit("dealer") /\ (score.player < 1 \/ score.player > 21)) =>
        /\ ret.kind = "AssertionError"
        /\ ret.msg = "Player already goes bust."

\* player 22 against a dealer at 5, resolved for the dealer
C8_Witness ==
    /\ IsUnit("dealer")
    /\ score.player = 22
    /\ score.dealer = 5
    /\ ret.kind = "AssertionError"

\* C9: the deltas a card draw can add are exactly -10..-1 and 1..10: a hit
\* changes player_sum by one of them, and each of them is a possible outcome
\* of a hit.
C9_DeltaSet == (-10..-1) \cup (1..10)

C9_CardDeltas ==
    /\ IsStep(1) => (score.player - entry.player) \in C9_DeltaSet
    /\ (pc = "idle" /\ score.player \in 2..10) =>
           \A c \in C9_DeltaSet :
               ENABLED (StepHit(1) /\ score'.player = score.player + c)

\* C10: every observation returned by reset or step has player_sum in 0..21
\* and dealer_sum in 0..10.
C10_ObservationInSpace ==
    ret.kind \in {"observation", "step"} =>
        /\ ret.obs[1] \in 0..21
        /\ ret.obs[2] \in 0..10

\* C11: every reward step returns is -1, 0 or +1; a step that returns
\* done = false returns reward 0; reward +1 is returned only by a Stick.
C11_RewardRange ==
    (Len(call) = 2 /\ call[1] = "step" /\ ret.kind = "step") =>
        /\ ret.reward \in {-1, 0, 1}
        /\ (ret.done = FALSE) => (ret.reward = 0)
        /\ (ret.reward = 1) => (call[2] = 0)
        /\ (call[2] = 1) => (ret.reward \in {-1, 0})

\* a stick won by more than one point with a dealer that is not bust
C11_Witness ==
    /\ IsStep(0)
    /\ ret.kind = "step"
    /\ score.dealer \in 17..19
    /\ score.player = 21
    /\ ret.reward = 1

\* C13: every step(Stick) returns: a call that has entered the dealer's loop
\* eventually leaves it, whatever cards are drawn.
C13_StickAlwaysReturns == (pc = "dealer_loop") ~> (pc = "idle")

\* C13 as amended: from every dealer_sum in 1..16 one card can take the
\* dealer out of 1..16, and once dealer_sum is outside 1..16 the call draws
\* no more and returns.
C13_StickReturnsOnceOut ==
    /\ [](  (pc = "dealer_loop" /\ score.dealer \in 1..16) =>
            ENABLED (DealerDraw /\ score'.dealer \notin 1..16)  )
    /\ (pc = "dealer_loop" /\ score.dealer \notin 1..16) ~> (pc = "idle")

\* a stick returned after a red card had taken the dealer back to the sum
\* it started from
C13_Witness ==
    /\ IsStep(0)
    /\ pc = "idle"
    /\ ret.kind = "step"
    /\ ndraws = MaxDraws
    /\ entry.dealer \in 2..10

\* C14: every draw of the dealer's loop leaves dealer_sum either higher than
\* before or bust.
C14_DrawIncreasesOrBusts ==
    [][ (pc = "dealer_loop" /\ pc' = "dealer_loop") =>
            \/ score'.dealer > score.dealer
            \/ score'.dealer < 1
            \/ score'.dealer > 21 ]_vars

\* C14 as amended: every draw of the dealer's loop changes dealer_sum by a
\* nonzero amount of at most 10, up or down; after a draw dealer_sum may be
\* lower than before and still in 1..21.
C14_DrawMovesByOneCard ==
    [][ (pc = "dealer_loop" /\ pc' = "dealer_loop"
            /\ (ndraws' # ndraws \/ score' # score)) =>
            /\ score'.dealer # score.dealer
            /\ score'.dealer - score.dealer \in -10..10
            /\ score'.player = score.player ]_vars

\* the dealer's first card was red and left the dealer lower and not bust
C14_Witness ==
    /\ pc = "dealer_loop"
    /\ ndraws = 1
    /\ score.dealer < entry.dealer
    /\ score.dealer >= 1

\* C15: a step call that fails leaves player_sum and dealer_sum as they
\* were when it was called and has drawn no card.
C15_FailedStepChangesNothing ==
    (Len(call) = 2 /\ call[1] = "step" /\ ret.kind = "AssertionError") =>
        /\ score = entry
        /\ ndraws = 0

\* C16: _is_bust(x) is true exactly when x < 1 or x > 21 (so false at 1 and
\* 21, true at 0 and 22), and the same test decides the player's bust in the
\* hit branch, the failed assertion in the dealer branch and the dealer's
\* bust in the dealer branch.
C16_BustPredicate ==
    /\ (Len(call) = 2 /\ call[1] = "_is_bust") =>
           /\ ret.kind \in {"True", "False"}
           /\ (ret.kind = "True") <=> (call[2] < 1 \/ call[2] > 21)
           /\ (call[2] \in {1, 21}) => (ret.kind = "False")
           /\ (call[2] \in {0, 22}) => (ret.kind = "True")
    /\ IsUnit("player") =>
           (ret.done <=> (score.player < 1 \/ score.player > 21))
    /\ IsUnit("dealer") =>
           /\ (ret.kind = "AssertionError") <=>
                  (score.player < 1 \/ score.player > 21)
           /\ (ret.kind = "step" /\ (score.dealer < 1 \/ score.dealer > 21)) =>
                  (ret.reward = 1)
           /\ (ret.kind = "step" /\ score.dealer \in 1..21
                  /\ score.dealer >= score.player) => (ret.reward # 1)

\* _is_bust(22) answered True
C16_Witness ==
    /\ Len(call) = 2
    /\ call[1] = "_is_bust"
    /\ call[2] = 22
    /\ ret.kind = "True"

\* C17: between calls, while no step since the last reset has returned
\* done = true, player_sum is in 1..21 and dealer_sum is in 2..10 and is not
\* changed by any step that leaves the episode in progress; and, as long as
\* step is not called after done = true, a step since the last reset has
\* returned done = true exactly when the last call was a step that returned
\* done = true.
C17_InProgressState ==
    /\ (pc = "idle" /\ ~terminated) =>
           /\ score.player >= 1 /\ score.player <= 21
           /\ score.dealer \in 2..10
           /\ ~misused
    /\ (pc = "idle" /\ ~misused) =>
           (terminated <=>
               (Len(call) = 2 /\ call[1] = "step" /\ ret.kind = "step"
                   /\ ret.done = TRUE))

C17_InProgressStep ==
    (pc = "idle" /\ pc' = "idle" /\ ~terminated' /\ call' # <<"reset">>) =>
        score'.dealer = score.dealer

\* C17: the in-progress state invariant together with its step condition.
C17_InProgressInvariant == [](C17_InProgressState) /\ [][C17_InProgressStep]_vars

\* a hit that landed on 21 left the episode in progress
C17_Witness ==
    /\ pc = "idle"
    /\ ~terminated
    /\ IsStep(1)
    /\ score.player = 21
    /\ score.dealer = entry.dealer

\* C18: step(Hit) never changes dealer_sum and step(Stick) never changes
\* player_sum, at any point of the call.
C18_StepFrame ==
    /\ IsStep(1) => score.dealer = entry.dealer
    /\ IsStep(0) => score.player = entry.player

C18_StepFrameStep ==
    /\ (pc = "idle" /\ pc' = "idle" /\ Len(call') = 2 /\ call'[1] = "step"
           /\ call'[2] = 1) => score'.dealer = score.dealer
    /\ (pc = "dealer_loop" \/ pc' = "dealer_loop") => score'.player = score.player

\* C18: the frame conditions of step, on states and on single steps.
C18_Frame == [](C18_StepFrame) /\ [][C18_StepFrameStep]_vars

\* a stick whose dealer drew and ended elsewhere, the player untouched
C18_Witness ==
    /\ IsStep(0)
    /\ pc = "idle"
    /\ ndraws >= 1
    /\ score.dealer # entry.dealer
    /\ score.player = entry.player

\* C19: while step is only called on an episode in progress, a Stick enters
\* the dealer's loop with dealer_sum in 2..10, so the dealer draws at least
\* one card and the dealer_sum it ends on differs from the dealer's first card.
C19_DealerAlwaysDraws ==
    (~misused /\ IsStep(0)) =>
        /\ entry.dealer \in 2..10
        /\ (pc = "idle") =>
               /\ ndraws >= 1
               /\ score.dealer # entry.dealer
               /\ score.dealer \notin 2..10

\* a stick as the first step of an episode, ended by one black card
C19_Witness ==
    /\ ~misused
    /\ IsStep(0)
    /\ pc = "idle"
    /\ ndraws = 1
    /\ score.dealer >= 17

\* C20: while step is only called on an episode in progress, player_sum
\* stays in -9..31 and dealer_sum in -9..26, and a sum that has left 1..21 is
\* not changed again before the next reset.
C20_SumsInRange ==
    ~misused =>
        /\ score.player \in -9..31
        /\ score.dealer \in -9..26

C20_BustSumFrozen ==
    (~misused' /\ call' # <<"reset">>) =>
        /\ (score.player < 1 \/ score.player > 21) => score'.player = score.player
        /\ (score.dealer < 1 \/ score.dealer > 21) => score'.dealer = score.dealer

\* C20: the ranges of the sums together with the freeze of a bust sum.
C20_BoundedOvershoot == [](C20_SumsInRange) /\ [][C20_BustSumFrozen]_vars

\* the player went bust at the upper end of the range
C20_Witness ==
    /\ ~misused
    /\ IsStep(1)
    /\ score.player = 31

====
